---- MODULE Spec2Model ----
(***************************************************************************)
(* A model of the sensor-network repository: the range validator and the   *)
(* report verifier of validator.py, the collector of data_collector.py     *)
(* with the sensor of sensor.py, and the registry (SensorType, Sensor,     *)
(* DataCollector) of main.py.                                              *)
(*                                                                         *)
(* Numbers.  The program's values are Python numbers.  The model writes a  *)
(* value in thousandths: Milli(25) is 25.0 and Milli(10) + 5 is 10.005, so  *)
(* the tolerance 0.01 of the verifiers is the integer 10.                  *)
(*                                                                         *)
(* Names.  The source writes its type names in Cyrillic; the model writes  *)
(* them in Latin letters, one distinct string per distinct source string:  *)
(*   "Temperatura" (validator.py:5), "CO2" (:8), "PM2.5" (:11),            *)
(*   "Vologist" (:14), "Riven shumu" (main.py:375).                        *)
(***************************************************************************)
EXTENDS Integers, Sequences, FiniteSets, TLC

VARIABLES
    v_value, v_type, v_ret,          \* one call of validate_value
    r_collected, r_saved, r_ret,     \* one call of verify_reports
    data, c_sensor, c_value, c_diag, \* data_collector.DataCollector and its last collect
    sensor_types, sensors, sensor_order, reports, \* main.DataCollector
    m_op, m_arg, m_ret               \* the last operation on main.DataCollector

vars == <<v_value, v_type, v_ret, r_collected, r_saved, r_ret,
          data, c_sensor, c_value, c_diag,
          sensor_types, sensors, sensor_order, reports, m_op, m_arg, m_ret>>

v_vars == <<v_value, v_type, v_ret>>
r_vars == <<r_collected, r_saved, r_ret>>
c_vars == <<data, c_sensor, c_value, c_diag>>
m_vars == <<sensor_types, sensors, sensor_order, reports, m_op, m_arg, m_ret>>

\* A number of the program, in thousandths.
Milli(x) == x * 1000

\* No call made yet / no value.
None == [none |-> TRUE]

\* The parts of the state a specification does not use stay as constructed.
V_Idle == v_value = 0 /\ v_type = "" /\ v_ret = None
R_Idle == r_collected = <<>> /\ r_saved = <<>> /\ r_ret = None
C_Idle == data = <<>> /\ c_sensor = None /\ c_value = None /\ c_diag = None
M_Idle ==
    /\ sensor_types = <<>> /\ sensors = <<>> /\ sensor_order = <<>>
    /\ reports = <<>> /\ m_op = "init" /\ m_arg = None /\ m_ret = None

-----------------------------------------------------------------------------
(* validator.py: validate_value *)

\* The value returned by a call that returns.
Returned(v) == [ok |-> TRUE, value |-> v]

\* raise ValueError(f"... {sensor_type}: {value}")
ValueError(sensor_type, value) == [ok |-> FALSE, sensor_type |-> sensor_type, value |-> value]

\* Mutant: the upper bounds compared with < instead of <=.
validate_value_exclusive(value, sensor_type) ==
    IF sensor_type = "Temperatura" /\ Milli(-50) <= value /\ value < Milli(60)
        THEN Returned(value)
    ELSE IF sensor_type = "CO2" /\ Milli(0) <= value /\ value < Milli(5000)
        THEN Returned(value)
    ELSE IF sensor_type = "PM2.5" /\ Milli(0) <= value /\ value < Milli(500)
        THEN Returned(value)
    ELSE IF sensor_type = "Vologist" /\ Milli(0) <= value /\ value < Milli(100)
        THEN Returned(value)
    ELSE ValueError(sensor_type, value)

\* Mutant: a final else branch that returns the value of an unknown type.
validate_value_fallthrough(value, sensor_type) ==
    IF sensor_type = "Temperatura"
        THEN IF Milli(-50) <= value /\ value <= Milli(60)
                THEN Returned(value) ELSE ValueError(sensor_type, value)
    ELSE IF sensor_type = "CO2"
        THEN IF Milli(0) <= value /\ value <= Milli(5000)
                THEN Returned(value) ELSE ValueError(sensor_type, value)
    ELSE IF sensor_type = "PM2.5"
        THEN IF Milli(0) <= value /\ value <= Milli(500)
                THEN Returned(value) ELSE ValueError(sensor_type, value)
    ELSE IF sensor_type = "Vologist"
        THEN IF Milli(0) <= value /\ value <= Milli(100)
                THEN Returned(value) ELSE ValueError(sensor_type, value)
    ELSE Returned(value)

\* validate_value(value, sensor_type): the if/elif chain; a branch whose range
\* test fails, and a name no branch matches, fall through to the raise.
validate_value(value, sensor_type) ==
    IF sensor_type = "Temperatura"
        THEN IF Milli(-50) <= value /\ value <= Milli(60)
                THEN Returned(value) ELSE ValueError(sensor_type, value)
    ELSE IF sensor_type = "CO2"
        THEN IF Milli(0) <= value /\ value <= Milli(5000)
                THEN Returned(value) ELSE ValueError(sensor_type, value)
    ELSE IF sensor_type = "PM2.5"
        THEN IF Milli(0) <= value /\ value <= Milli(500)
                THEN Returned(value) ELSE ValueError(sensor_type, value)
    ELSE IF sensor_type = "Vologist"
        THEN IF Milli(0) <= value /\ value <= Milli(100)
                THEN Returned(value) ELSE ValueError(sensor_type, value)
    ELSE ValueError(sensor_type, value)

\* The type names a caller may pass: the four of the source, the noise names
\* ("Shum", "Riven shumu", "Noise"), and names that differ in case or language.
TypeNames ==
    {"Temperatura", "CO2", "PM2.5", "Vologist",
     "Shum", "Riven shumu", "Noise",
     "temperatura", "co2", "Temperature", "UnknownType"}

\* The values a caller may pass: each bound of each range, its two neighbours
\* one thousandth away, and values well inside and outside.
ValueSamples ==
    {Milli(-50) - 1, Milli(-50), Milli(-50) + 1, -1, 0, 1, Milli(25),
     Milli(60) - 1, Milli(60), Milli(60) + 1, Milli(70),
     Milli(100) - 1, Milli(100), Milli(100) + 1,
     Milli(150), Milli(150) + 1,
     Milli(500) - 1, Milli(500), Milli(500) + 1,
     Milli(5000) - 1, Milli(5000), Milli(5000) + 1, Milli(6000)}

V_Init ==
    /\ v_value \in ValueSamples
    /\ v_type \in TypeNames
    /\ v_ret = None

\* The call validate_value(v_value, v_type).
V_Call ==
    /\ v_ret = None
    /\ v_ret' = validate_value(v_value, v_type)
    /\ UNCHANGED <<v_value, v_type>>

\* The caller picks the arguments of its next call.
V_NextInput ==
    /\ v_ret # None
    /\ v_value' \in ValueSamples
    /\ v_type' \in TypeNames
    /\ v_ret' = None

-----------------------------------------------------------------------------
(* validator.py: verify_reports *)

\* 0.01, in thousandths (validator.py:26 and main.py:270).
Tolerance == 10

Abs(x) == IF x < 0 THEN -x ELSE x

Min(a, b) == IF a <= b THEN a ELSE b

\* Mutant: the location test inverted (== for !=).
PairMatches_location_inverted(collected, saved) ==
    /\ ~(collected.type # saved.type)
    /\ ~(Abs(collected.value - saved.value) > Tolerance)
    /\ ~(collected.location = saved.location)

\* Mutant: the values compared exactly, without the tolerance.
PairMatches_exact(collected, saved) ==
    /\ ~(collected.type # saved.type)
    /\ ~(collected.value # saved.value)
    /\ ~(collected.location # saved.location)

\* The body of the for loop for one pair: TRUE when none of its three tests
\* returns False.
PairMatches(collected, saved) ==
    /\ ~(collected.type # saved.type)
    /\ ~(Abs(collected.value - saved.value) > Tolerance)
    /\ ~(collected.location # saved.location)

\* zip(collector_data, saved_data) from pair i on: the loop returns False at
\* the first pair that fails a test, and True when zip is exhausted, which is
\* at the end of the shorter sequence.
RECURSIVE verify_loop(_, _, _)
verify_loop(collector_data, saved_data, i) ==
    IF i > Min(Len(collector_data), Len(saved_data)) THEN TRUE
    ELSE IF ~PairMatches(collector_data[i], saved_data[i]) THEN FALSE
    ELSE verify_loop(collector_data, saved_data, i + 1)

\* Mutant: sequences of different lengths are reported as a mismatch.
verify_reports_strict(collector_data, saved_data) ==
    /\ Len(collector_data) = Len(saved_data)
    /\ verify_loop(collector_data, saved_data, 1)

verify_reports(collector_data, saved_data) ==
    verify_loop(collector_data, saved_data, 1)

\* The longest sequence given to verify_reports.
MaxLen == 2

\* Entries to compare: a base entry, entries whose value is 0.005, 0.01 and
\* 0.011 away from it, one of another type and one of another location.
EntrySamples ==
    {[type |-> "PM2.5", value |-> Milli(10),      location |-> "X"],
     [type |-> "PM2.5", value |-> Milli(10) + 5,  location |-> "X"],
     [type |-> "PM2.5", value |-> Milli(10) + 10, location |-> "X"],
     [type |-> "PM2.5", value |-> Milli(10) + 11, location |-> "X"],
     [type |-> "CO2",   value |-> Milli(10),      location |-> "X"],
     [type |-> "PM2.5", value |-> Milli(10),      location |-> "Y"]}

SeqsUpTo(S, n) == UNION {[1..k -> S] : k \in 0..n}

R_Init ==
    /\ r_collected \in SeqsUpTo(EntrySamples, MaxLen)
    /\ r_saved \in SeqsUpTo(EntrySamples, MaxLen)
    /\ r_ret = None

\* The call verify_reports(r_collected, r_saved).
R_Call ==
    /\ r_ret = None
    /\ r_ret' = Returned(verify_reports(r_collected, r_saved))
    /\ UNCHANGED <<r_collected, r_saved>>

-----------------------------------------------------------------------------
(* sensor.py: Sensor; sensor_type.py: SensorType; data_collector.py *)

\* sensor_type.SensorType(name, unit)
NamedType(name, unit) == [name |-> name, unit |-> unit]

\* sensor.Sensor(sensor_id, sensor_type, location)
IoTSensor(sensor_id, sensor_type, location) ==
    [sensor_id |-> sensor_id, sensor_type |-> sensor_type, location |-> location]

\* Mutant: the generated value returned without validation.
read_data_unvalidated(sensor, value) == Returned(value)

\* Sensor.read_data, `value` being what random.uniform(0, 100) drew.
read_data(sensor, value) == validate_value(value, sensor.sensor_type.name)

\* The entry collect appends for a reading.
Entry(sensor, value) ==
    [sensor_id |-> sensor.sensor_id,
     type |-> sensor.sensor_type.name,
     value |-> value,
     unit |-> sensor.sensor_type.unit,
     location |-> sensor.location]

\* DataCollector.collect(sensor) on the list `entries`: the new list and the
\* error printed by the except branch (None when there is none).
collect(entries, sensor, value) ==
    LET reading == read_data(sensor, value) IN
    IF reading.ok
    THEN [data |-> Append(entries, Entry(sensor, reading.value)), diag |-> None]
    ELSE [data |-> entries, diag |-> reading]

\* The most entries the collector's list is followed to.
MaxData == 3

\* The sensors collected from: one per recognised type that random.uniform(0,
\* 100) can take out of range or not, and one of a type validate_value does
\* not know.
CollectorSensors ==
    {IoTSensor("t1", NamedType("Temperatura", "C"), "X"),
     IoTSensor("c1", NamedType("CO2", "ppm"), "Y"),
     IoTSensor("h1", NamedType("Vologist", "%"), "X"),
     IoTSensor("n1", NamedType("Shum", "dB"), "Y")}

\* Values random.uniform(0, 100) may draw.
UniformSamples == {Milli(0), Milli(60), Milli(60) + 1, Milli(100)}

C_Init ==
    /\ data = <<>>
    /\ c_sensor = None
    /\ c_value = None
    /\ c_diag = None

\* The call collect(sensor), with the value the sensor generates.
C_Collect ==
    /\ Len(data) < MaxData
    /\ \E sensor \in CollectorSensors, value \in UniformSamples :
          LET after == collect(data, sensor, value) IN
          /\ data' = after.data
          /\ c_diag' = after.diag
          /\ c_sensor' = sensor
          /\ c_value' = value

-----------------------------------------------------------------------------
(* main.py: SensorType, Sensor *)

\* SensorType.__init__: the four fields; no method assigns them again.
SensorType(name, unit, min_value, max_value) ==
    [name |-> name, unit |-> unit, min_value |-> min_value, max_value |-> max_value]

\* Mutant: the upper bound is not tested.
validate_reading_no_max(sensor_type, value) == sensor_type.min_value <= value

\* SensorType.validate_reading
validate_reading(sensor_type, value) ==
    sensor_type.min_value <= value /\ value <= sensor_type.max_value

\* Sensor.__init__
Sensor(sensor_id, location, sensor_type) ==
    [sensor_id |-> sensor_id, location |-> location,
     sensor_type |-> sensor_type, readings |-> <<>>]

\* The reading dictionary of Sensor.add_reading.  Its timestamp and its
\* formatted_value are text no operation modelled here reads.
Reading(value) == [value |-> value]

\* Sensor.add_reading(value): the sensor afterwards and the value returned.
Sensor_add_reading(sensor, value) ==
    IF ~validate_reading(sensor.sensor_type, value)
    THEN [sensor |-> sensor, ret |-> FALSE]
    ELSE [sensor |-> [sensor EXCEPT !.readings = Append(@, Reading(value))],
          ret |-> TRUE]

\* Sensor.get_latest_reading: the last reading, or the empty dictionary.
get_latest_reading(sensor) ==
    IF sensor.readings = <<>> THEN None
    ELSE sensor.readings[Len(sensor.readings)]

RECURSIVE SumValues(_)
SumValues(readings) ==
    IF readings = <<>> THEN 0
    ELSE readings[1].value + SumValues(Tail(readings))

\* The quotient num / den (den > 0) of thousandths, kept exact.
Ratio(num, den) == [num |-> num, den |-> den]

\* abs(a - b) > 0.01 for two quotients.
RatioDiffers(a, b) ==
    Abs(a.num * b.den - b.num * a.den) > Tolerance * a.den * b.den

\* Sensor.get_average_reading: 0 without readings, else sum / len.
get_average_reading(sensor) ==
    IF sensor.readings = <<>> THEN Ratio(0, 1)
    ELSE Ratio(SumValues(sensor.readings), Len(sensor.readings))

\* Sensor.to_dict
to_dict(sensor) ==
    [sensor_id |-> sensor.sensor_id,
     location |-> sensor.location,
     sensor_type |-> sensor.sensor_type.name,
     readings_count |-> Len(sensor.readings),
     latest_reading |-> get_latest_reading(sensor),
     average_reading |-> get_average_reading(sensor)]

-----------------------------------------------------------------------------
(* main.py: DataCollector *)

\* A DataCollector: its dictionaries sensor_types (name -> SensorType) and
\* sensors (sensor_id -> Sensor, with sensor_order the insertion order of its
\* keys) and its list of reports.  Every method below gives the collector
\* afterwards (col) and the value returned (ret).
Collector == [sensor_types |-> sensor_types, sensors |-> sensors,
              sensor_order |-> sensor_order, reports |-> reports]

\* d[key] = value on a dictionary.
SetItem(d, key, value) == (key :> value) @@ d

\* DataCollector.register_sensor_type: the entry for `name` is assigned,
\* whether or not the name was registered before.
register_sensor_type(col, name, unit, min_value, max_value) ==
    LET sensor_type == SensorType(name, unit, min_value, max_value) IN
    [col |-> [col EXCEPT !.sensor_types = SetItem(@, name, sensor_type)],
     ret |-> sensor_type]

\* DataCollector.create_sensor, `sensor_id` being the text uuid4 gave: a key
\* not yet in sensors ("unique ID", main.py:189).
create_sensor(col, location, sensor_type_name, sensor_id) ==
    IF sensor_type_name \notin DOMAIN col.sensor_types
    THEN [col |-> col, ret |-> None]
    ELSE LET sensor == Sensor(sensor_id, location, col.sensor_types[sensor_type_name]) IN
         [col |-> [col EXCEPT !.sensors = SetItem(@, sensor_id, sensor),
                              !.sensor_order = Append(@, sensor_id)],
          ret |-> sensor]

\* DataCollector.add_reading
DataCollector_add_reading(col, sensor_id, value) ==
    IF sensor_id \notin DOMAIN col.sensors
    THEN [col |-> col, ret |-> FALSE]
    ELSE LET added == Sensor_add_reading(col.sensors[sensor_id], value) IN
         [col |-> [col EXCEPT !.sensors[sensor_id] = added.sensor],
          ret |-> added.ret]

\* The loop of generate_report: to_dict of every listed sensor that exists.
RECURSIVE sensors_data(_, _)
sensors_data(col, sensor_ids) ==
    IF sensor_ids = <<>> THEN <<>>
    ELSE (IF Head(sensor_ids) \in DOMAIN col.sensors
          THEN <<to_dict(col.sensors[Head(sensor_ids)])>> ELSE <<>>)
         \o sensors_data(col, Tail(sensor_ids))

\* A list given as an optional argument.
List(items) == [items |-> items]

\* DataCollector.generate_report; sensor_ids is None, which stands for all
\* the keys of sensors, or List(ids).  The report's generated_at is the
\* clock's text.
generate_report(col, title, sensor_ids) ==
    LET ids == IF sensor_ids = None THEN col.sensor_order ELSE sensor_ids.items
        report == [title |-> title,
                   sensors_count |-> Len(sensors_data(col, ids)),
                   sensors |-> sensors_data(col, ids)]
    IN [col |-> [col EXCEPT !.reports = Append(@, report)], ret |-> report]

\* Mutant: the loop of validate_report without its readings_count test.
RECURSIVE validate_sensors_no_count(_, _)
validate_sensors_no_count(col, report_sensors) ==
    IF report_sensors = <<>> THEN TRUE
    ELSE LET sensor_data == Head(report_sensors) IN
         IF sensor_data.sensor_id \notin DOMAIN col.sensors THEN FALSE
         ELSE IF RatioDiffers(sensor_data.average_reading,
                              get_average_reading(col.sensors[sensor_data.sensor_id]))
              THEN FALSE
         ELSE validate_sensors_no_count(col, Tail(report_sensors))

\* The loop of validate_report over report["sensors"].
RECURSIVE validate_sensors(_, _)
validate_sensors(col, report_sensors) ==
    IF report_sensors = <<>> THEN TRUE
    ELSE LET sensor_data == Head(report_sensors) IN
         IF sensor_data.sensor_id \notin DOMAIN col.sensors THEN FALSE
         ELSE IF sensor_data.readings_count
                     # Len(col.sensors[sensor_data.sensor_id].readings)
              THEN FALSE
         ELSE IF RatioDiffers(sensor_data.average_reading,
                              get_average_reading(col.sensors[sensor_data.sensor_id]))
              THEN FALSE
         ELSE validate_sensors(col, Tail(report_sensors))

\* DataCollector.validate_report; report_index counts from 0.
validate_report(col, report_index) ==
    IF report_index < 0 \/ report_index >= Len(col.reports) THEN FALSE
    ELSE validate_sensors(col, col.reports[report_index + 1].sensors)

\* The inner loop of load_data: sensor.add_reading for each reading of the
\* file, whatever each call returns.
RECURSIVE load_readings(_, _)
load_readings(sensor, file_readings) ==
    IF file_readings = <<>> THEN sensor
    ELSE load_readings(Sensor_add_reading(sensor, Head(file_readings).value).sensor,
                       Tail(file_readings))

\* The loop of load_data over data["sensors"]; sensor_ids are the texts uuid4
\* gives, one for each sensor of the file.  A sensor of an unregistered type
\* is None, and adding its first reading raises: the except branch returns
\* False and what was loaded before stays.
RECURSIVE load_sensors(_, _, _)
load_sensors(col, file_sensors, sensor_ids) ==
    IF file_sensors = <<>> THEN [col |-> col, ret |-> TRUE]
    ELSE LET sensor_data == Head(file_sensors)
             created == create_sensor(col, sensor_data.location,
                                      sensor_data.sensor_type, Head(sensor_ids))
         IN IF created.ret = None
            THEN IF sensor_data.readings # <<>>
                 THEN [col |-> col, ret |-> FALSE]
                 ELSE load_sensors(col, Tail(file_sensors), Tail(sensor_ids))
            ELSE LET loaded == load_readings(created.ret, sensor_data.readings) IN
                 load_sensors([created.col EXCEPT !.sensors[loaded.sensor_id] = loaded],
                              Tail(file_sensors), Tail(sensor_ids))

\* The loop of load_data over data["sensor_types"].
RECURSIVE load_sensor_types(_, _)
load_sensor_types(col, file_types) ==
    IF file_types = <<>> THEN col
    ELSE LET t == Head(file_types) IN
         load_sensor_types(
             register_sensor_type(col, t.name, t.unit, t.min_value, t.max_value).col,
             Tail(file_types))

\* DataCollector.load_data; file = None stands for a file that does not exist.
load_data(col, file, sensor_ids) ==
    IF file = None THEN [col |-> col, ret |-> FALSE]
    ELSE load_sensors(load_sensor_types(col, file.sensor_types), file.sensors, sensor_ids)

-----------------------------------------------------------------------------
(* main.py: the operations a session may make *)

\* The most objects (sensors, readings and reports together) a collector is
\* followed to.
MaxSize == 5

\* The arguments of register_sensor_type: a type (main.py:373) and the same
\* name with another unit and range.
TypeArgs ==
    {SensorType("Temperatura", "C", Milli(-50), Milli(60)),
     SensorType("Temperatura", "F", Milli(-58), Milli(140))}

\* The type names given to create_sensor; the second is never registered.
SensorTypeNames == {"Temperatura", "Riven shumu"}

\* A location, in ten-thousandths of a degree (main.py:379).
Kyiv == [lat |-> 504501, lon |-> 305234]

\* The values given to add_reading: in every range, above the maximum of the
\* first type only, above every maximum.
ReadingSamples == {Milli(60), Milli(60) + 1, Milli(150)}

\* The sensor ids.  create_sensor cuts its id from a fresh uuid4, and the
\* operations only compare ids for equality, so the ids are numbered in the
\* order of their creation: NewId is the next one, and 0 is the id of no
\* sensor.
NewId == Len(sensor_order) + 1

AnyIds == 0..Len(sensor_order)

RECURSIVE CountReadings(_, _)
CountReadings(sensor_dict, order) ==
    IF order = <<>> THEN 0
    ELSE Len(sensor_dict[Head(order)].readings) + CountReadings(sensor_dict, Tail(order))

\* The sensors, readings and reports the collector holds.
Size == Len(sensor_order) + CountReadings(sensors, sensor_order) + Len(reports)

RECURSIVE FileSize(_)
FileSize(file_sensors) ==
    IF file_sensors = <<>> THEN 0
    ELSE 1 + Len(Head(file_sensors).readings) + FileSize(Tail(file_sensors))

\* The files given to load_data: none; one that registers the first name
\* again and holds a sensor with an accepted and a rejected reading; one
\* whose sensor is of an unregistered type.
FileSamples ==
    {None,
     [sensor_types |-> <<SensorType("Temperatura", "F", Milli(-58), Milli(140))>>,
      sensors |-> <<[location |-> Kyiv, sensor_type |-> "Temperatura",
                     readings |-> <<Reading(Milli(60) + 1), Reading(Milli(150))>>]>>],
     [sensor_types |-> <<>>,
      sensors |-> <<[location |-> Kyiv, sensor_type |-> "Riven shumu",
                     readings |-> <<Reading(Milli(60))>>]>>]}

\* DataCollector.__init__
Init ==
    /\ sensor_types = <<>>
    /\ sensors = <<>>
    /\ sensor_order = <<>>
    /\ reports = <<>>
    /\ m_op = "init"
    /\ m_arg = None
    /\ m_ret = None
    /\ V_Idle /\ R_Idle /\ C_Idle

\* The collector after a call, and what the call was and returned.
Becomes(after, op, arg) ==
    /\ sensor_types' = after.col.sensor_types
    /\ sensors' = after.col.sensors
    /\ sensor_order' = after.col.sensor_order
    /\ reports' = after.col.reports
    /\ m_op' = op
    /\ m_arg' = arg
    /\ m_ret' = Returned(after.ret)
    /\ UNCHANGED <<v_vars, r_vars, c_vars>>

RegisterSensorType ==
    \E t \in TypeArgs :
        Becomes(register_sensor_type(Collector, t.name, t.unit, t.min_value, t.max_value),
                "register_sensor_type", t)

CreateSensor ==
    /\ Size < MaxSize
    /\ \E name \in SensorTypeNames :
          Becomes(create_sensor(Collector, Kyiv, name, NewId),
                  "create_sensor", [sensor_type_name |-> name])

AddReading ==
    \E sensor_id \in AnyIds, value \in ReadingSamples :
        /\ sensor_id \in DOMAIN sensors => Size < MaxSize
        /\ Becomes(DataCollector_add_reading(Collector, sensor_id, value),
                   "add_reading", [sensor_id |-> sensor_id, value |-> value])

GenerateReport ==
    /\ Size < MaxSize
    /\ \E sensor_ids \in {None} \cup {List(ids) : ids \in SeqsUpTo(AnyIds, 1)} :
          Becomes(generate_report(Collector, "report", sensor_ids),
                  "generate_report", [sensor_ids |-> sensor_ids])

\* validate_report assigns nothing: the collector afterwards is the one before.
ValidateReport ==
    \E report_index \in -1..Len(reports) :
        Becomes([col |-> Collector, ret |-> validate_report(Collector, report_index)],
                "validate_report", [report_index |-> report_index])

LoadData ==
    \E file \in FileSamples :
        /\ file # None => Size + FileSize(file.sensors) <= MaxSize
        /\ Becomes(load_data(Collector, file, <<NewId>>),
                   "load_data", [file |-> file])

Next ==
    \/ RegisterSensorType
    \/ CreateSensor
    \/ AddReading
    \/ GenerateReport
    \/ ValidateReport
    \/ LoadData

Spec == Init /\ [][Next]_vars

-----------------------------------------------------------------------------
(* Specifications *)

InitValidate == V_Init /\ R_Idle /\ C_Idle /\ M_Idle
NextValidate ==
    \/ V_Call /\ UNCHANGED <<r_vars, c_vars, m_vars>>
    \/ V_NextInput /\ UNCHANGED <<r_vars, c_vars, m_vars>>
SpecValidate == InitValidate /\ [][NextValidate]_vars

InitCollect == C_Init /\ V_Idle /\ R_Idle /\ M_Idle
NextCollect == C_Collect /\ UNCHANGED <<v_vars, r_vars, m_vars>>
SpecCollect == InitCollect /\ [][NextCollect]_vars

InitVerify == R_Init /\ V_Idle /\ C_Idle /\ M_Idle
NextVerify == R_Call /\ UNCHANGED <<v_vars, c_vars, m_vars>>
SpecVerify == InitVerify /\ [][NextVerify]_vars

-----------------------------------------------------------------------------
(* Claims about validate_value, checked under SpecValidate *)

\* The ranges the claims state, by type name.
StatedRanges ==
    ("Temperatura" :> [min |-> Milli(-50), max |-> Milli(60)])
    @@ ("CO2" :> [min |-> Milli(0), max |-> Milli(5000)])
    @@ ("PM2.5" :> [min |-> Milli(0), max |-> Milli(500)])
    @@ ("Vologist" :> [min |-> Milli(0), max |-> Milli(100)])

\* C1: for each of the four recognised types and every value v, the call
\* returns exactly v when min <= v <= max (v = min and v = max included) and
\* raises the rejection error when v < min or v > max.
C1_InRangeReturnedUnchanged ==
    (v_ret # None /\ v_type \in DOMAIN StatedRanges) =>
        IF StatedRanges[v_type].min <= v_value /\ v_value <= StatedRanges[v_type].max
        THEN v_ret = Returned(v_value)
        ELSE v_ret = ValueError(v_type, v_value)

\* C1 witness: calls at the upper bound (accepted) and one thousandth above
\* it (rejected) have been made.
C1_Witness ==
    /\ v_ret # None
    /\ v_type = "Temperatura"
    /\ v_value = Milli(60)
    /\ v_ret = Returned(Milli(60))
    /\ validate_value(Milli(60) + 1, "Temperatura") = ValueError("Temperatura", Milli(60) + 1)

\* C2: a type name that is not an exact, case-sensitive match of a recognised
\* name is rejected for every value, with the error carrying name and value,
\* and no value is returned.
C2_UnknownTypeRejected ==
    (v_ret # None /\ v_type \notin DOMAIN StatedRanges) =>
        /\ ~v_ret.ok
        /\ v_ret = ValueError(v_type, v_value)

\* C2 witness: a name differing only in case was passed with a value that its
\* recognised spelling accepts, and was rejected.
C2_Witness ==
    /\ v_ret # None
    /\ v_type = "temperatura"
    /\ v_value = Milli(25)
    /\ ~v_ret.ok

\* The names under which a noise type may be known.
NoiseNames == {"Shum", "Riven shumu", "Noise"}

\* The type names for which validate_value returns some value.
RecognisedNames ==
    {t \in TypeNames : \E v \in ValueSamples : validate_value(v, t).ok}

\* C3: the table has five recognised types, one of them the noise type with
\* inclusive range 0..150: a noise reading v with 0 <= v <= 150 is returned
\* unchanged, and is rejected only when v < 0 or v > 150.
C3_NoiseTypeRecognised ==
    (v_ret # None /\ v_type \in NoiseNames) =>
        IF Milli(0) <= v_value /\ v_value <= Milli(150)
        THEN /\ Cardinality(RecognisedNames) = 5
             /\ \E n \in NoiseNames : validate_value(v_value, n) = Returned(v_value)
        ELSE ~v_ret.ok

-----------------------------------------------------------------------------
(* Claims about verify_reports, checked under SpecVerify *)

\* The indices present in both sequences.
CommonIndices == 1..Min(Len(r_collected), Len(r_saved))

\* C5: the call returns false whenever at some common index the entries
\* differ in type, or in location, or in value by more than 0.01; a value
\* difference of at most 0.01 with equal type and location does not make it
\* false.
C5_MismatchDetected ==
    r_ret # None =>
        /\ (\E i \in CommonIndices :
               \/ r_collected[i].type # r_saved[i].type
               \/ r_collected[i].location # r_saved[i].location
               \/ Abs(r_collected[i].value - r_saved[i].value) > 10)
           => r_ret = Returned(FALSE)
        /\ (\A i \in CommonIndices :
               /\ r_collected[i].type = r_saved[i].type
               /\ r_collected[i].location = r_saved[i].location
               /\ Abs(r_collected[i].value - r_saved[i].value) <= 10)
           => r_ret = Returned(TRUE)

\* C5 witness: 10.0 against 10.005 with equal type and location was verified
\* and found equal, and 10.0 against 10.011 is found different.
C5_Witness ==
    /\ r_ret = Returned(TRUE)
    /\ Len(r_collected) = 1 /\ Len(r_saved) = 1
    /\ r_collected[1] = [type |-> "PM2.5", value |-> Milli(10), location |-> "X"]
    /\ r_saved[1] = [type |-> "PM2.5", value |-> Milli(10) + 5, location |-> "X"]
    /\ ~verify_reports(r_collected,
                       <<[type |-> "PM2.5", value |-> Milli(10) + 11, location |-> "X"]>>)

\* C6: verify_reports(X, X) is true for every sequence X of entries, the
\* empty one included.
C6_Reflexive ==
    (r_ret # None /\ r_collected = r_saved) => r_ret = Returned(TRUE)

\* C6 witness: a non-empty sequence was verified against itself.
C6_Witness ==
    /\ r_ret # None
    /\ r_collected = r_saved
    /\ Len(r_collected) >= 1

\* The first n elements of s.
Prefix(s, n) == SubSeq(s, 1, n)

\* C7: the result is the result on the two sequences cut to their common
\* length, so the elements of the longer one beyond it change nothing, and
\* the result is true when either sequence is empty.
C7_ShorterLengthOnly ==
    r_ret # None =>
        LET m == Min(Len(r_collected), Len(r_saved)) IN
        /\ r_ret = Returned(verify_reports(Prefix(r_collected, m), Prefix(r_saved, m)))
        /\ \A e \in EntrySamples :
              /\ Len(r_collected) >= Len(r_saved)
                 => verify_reports(Append(r_collected, e), r_saved) = r_ret.value
              /\ Len(r_saved) >= Len(r_collected)
                 => verify_reports(r_collected, Append(r_saved, e)) = r_ret.value
        /\ (m = 0 => r_ret = Returned(TRUE))

\* C7 witness: sequences of different lengths whose extra element differs
\* from everything in the shorter one were verified.
C7_Witness ==
    /\ r_ret = Returned(TRUE)
    /\ Len(r_collected) = 2 /\ Len(r_saved) = 1
    /\ r_collected[2].type # r_saved[1].type

-----------------------------------------------------------------------------
(* Claims about data_collector.DataCollector, checked under SpecCollect *)

\* C4: every entry of the data list carries a value validate_value accepts
\* for the entry's type; a collect whose reading is rejected leaves the list
\* exactly as it was, and one whose reading is accepted appends exactly one
\* entry, for that sensor and value, at the end.
C4_OnlyValidatedCollected ==
    /\ [](\A i \in 1..Len(data) : validate_value(data[i].value, data[i].type).ok)
    /\ [][IF validate_value(c_value', c_sensor'.sensor_type.name).ok
          THEN /\ Len(data') = Len(data) + 1
               /\ Prefix(data', Len(data)) = data
               /\ data'[Len(data')].value = c_value'
               /\ data'[Len(data')].type = c_sensor'.sensor_type.name
               /\ data'[Len(data')].sensor_id = c_sensor'.sensor_id
               /\ c_diag' = None
          ELSE /\ data' = data
               /\ c_diag' # None]_vars

\* C4 witness: after two accepted readings, a reading one thousandth above
\* the maximum was rejected and the list still holds the two.
C4_Witness ==
    /\ Len(data) = 2
    /\ c_diag # None
    /\ c_sensor # None
    /\ c_sensor.sensor_type.name = "Temperatura"
    /\ c_value = Milli(60) + 1

-----------------------------------------------------------------------------
(* Claims about main.DataCollector, checked under Spec *)

\* C8: a measurement type is immutable once registered and identified by its
\* name: no later operation, another register_sensor_type with the same name
\* included, changes the unit, min or max associated with a registered name,
\* and all sensors created with one type name validate against one range.
C8_TypeImmutableOnceRegistered ==
    /\ [][\A name \in DOMAIN sensor_types :
              /\ name \in DOMAIN sensor_types'
              /\ sensor_types'[name].unit = sensor_types[name].unit
              /\ sensor_types'[name].min_value = sensor_types[name].min_value
              /\ sensor_types'[name].max_value = sensor_types[name].max_value]_vars
    /\ [](\A i \in DOMAIN sensors, j \in DOMAIN sensors :
              sensors[i].sensor_type.name = sensors[j].sensor_type.name
              => /\ sensors[i].sensor_type.min_value = sensors[j].sensor_type.min_value
                 /\ sensors[i].sensor_type.max_value = sensors[j].sensor_type.max_value)

\* Whether add_reading(sensor_id, value) is to succeed in the current state.
Accepted(sensor_id, value) ==
    /\ sensor_id \in DOMAIN sensors
    /\ sensors[sensor_id].sensor_type.min_value <= value
    /\ value <= sensors[sensor_id].sensor_type.max_value

\* C9: add_reading(sensor_id, v) returns True and appends exactly one reading
\* to that sensor's readings iff sensor_id is a registered sensor and its
\* type's min_value <= v <= max_value; otherwise it returns False and leaves
\* the readings of every sensor unchanged.  Hence every stored reading of
\* every sensor lies within its sensor type's range.
C9_ReadingAddedIffValid ==
    /\ [][m_op' = "add_reading" =>
            LET sensor_id == m_arg'.sensor_id
                value == m_arg'.value
            IN /\ m_ret' = Returned(Accepted(sensor_id, value))
               /\ IF Accepted(sensor_id, value)
                  THEN sensors' = [sensors EXCEPT ![sensor_id].readings =
                                       Append(@, [value |-> value])]
                  ELSE sensors' = sensors]_vars
    /\ [](\A sensor_id \in DOMAIN sensors :
              \A k \in 1..Len(sensors[sensor_id].readings) :
                  /\ sensors[sensor_id].sensor_type.min_value
                         <= sensors[sensor_id].readings[k].value
                  /\ sensors[sensor_id].readings[k].value
                         <= sensors[sensor_id].sensor_type.max_value)

\* C9 witness: a sensor that holds an accepted reading was given a value
\* above its maximum, and add_reading returned False.
C9_Witness ==
    /\ m_op = "add_reading"
    /\ m_ret = Returned(FALSE)
    /\ m_arg.sensor_id \in DOMAIN sensors
    /\ m_arg.value > sensors[m_arg.sensor_id].sensor_type.max_value
    /\ Len(sensors[m_arg.sensor_id].readings) >= 1

\* Whether the report holds the data of sensor sensor_id.
InReport(report, sensor_id) ==
    \E k \in 1..Len(report.sensors) : report.sensors[k].sensor_id = sensor_id

\* Whether a sensor of the report has more readings than the report recorded.
Outgrown(report) ==
    \E k \in 1..Len(report.sensors) :
        /\ report.sensors[k].sensor_id \in DOMAIN sensors
        /\ Len(sensors[report.sensors[k].sensor_id].readings)
               > report.sensors[k].readings_count

\* C10: validate_report(i) returns True in the state right after
\* generate_report created report i, and False in every state reached after
\* a further successful add_reading on a sensor included in that report;
\* validate_report itself changes no sensor, reading or report.
C10_ReportValidUntilReadingAdded ==
    /\ [](m_op = "generate_report" => validate_report(Collector, Len(reports) - 1))
    /\ [][(m_op' = "add_reading" /\ m_ret' = Returned(TRUE)) =>
            \A i \in 1..Len(reports) :
                InReport(reports[i], m_arg'.sensor_id)
                => /\ Outgrown(reports[i])'
                   /\ ~validate_report(Collector', i - 1)]_vars
    /\ [][\A i \in 1..Len(reports) :
            Outgrown(reports[i]) => Outgrown(reports'[i])]_vars
    /\ [](\A i \in 1..Len(reports) :
            Outgrown(reports[i]) => ~validate_report(Collector, i - 1))
    /\ [][m_op' = "validate_report" =>
            /\ UNCHANGED <<sensor_types, sensors, sensor_order, reports>>
            /\ m_ret' = Returned(validate_report(Collector, m_arg'.report_index))]_vars

\* C10 witness: after a report on a sensor with a reading, a reading of the
\* same value was added to that sensor and validate_report of that report
\* returned False.
C10_Witness ==
    /\ m_op = "validate_report"
    /\ m_ret = Returned(FALSE)
    /\ m_arg.report_index = 0
    /\ Len(reports) >= 1
    /\ Len(reports[1].sensors) = 1
    /\ reports[1].sensors[1].readings_count = 1
    /\ Len(sensors[reports[1].sensors[1].sensor_id].readings) = 2
    /\ sensors[reports[1].sensors[1].sensor_id].readings[1]
           = sensors[reports[1].sensors[1].sensor_id].readings[2]

====
